---- MODULE Spec2Model ----
(***************************************************************************)
(* Model of package deque (src/deque/deque.go): a circular double-ended    *)
(* queue backed by a slice that grows by doubling and optionally shrinks.  *)
(*                                                                         *)
(* A Go slice index i is the TLA+ sequence index i + 1.  For the storage   *)
(* d.dat the model keeps len(d.dat) = cap(d.dat), as resize (make) and     *)
(* WrapSlice (dat[:cap(dat)]) both establish it; the zero value of the     *)
(* element type is 0 and the values pushed are positive integers.          *)
(***************************************************************************)
EXTENDS Integers, Sequences, FiniteSets, TLC

\* ------------------------------------------------------------------ bounds

\* Number of distinct values a behaviour may insert (Push, Unshift, WrapSlice).
MaxVal == 5
\* Largest number of arguments of one variadic Push or Unshift call.
MaxBatch == 2
\* Largest capacity of a slice handed to WrapSlice.
MaxWrapCap == 5
\* Largest configured Minsize (the smallest is -1: 0 and -1 are "unset").
MaxMinsize == 3

\* --------------------------------------------------------------- constants

DefaultSize == 32

ShrinkNever == 0

ShrinkIfEmpty == 1

ShrinkAt20Pct == 2

\* ------------------------------------------------------------------- state

VARIABLES
    Minsize,    \* Deque.Minsize
    Shrink,     \* Deque.Shrink
    head,       \* Deque.head
    tail,       \* Deque.tail
    len,        \* Deque.len
    dat,        \* Deque.dat, with len(dat) = cap(dat)
    oob,        \* some index expression of the last call was out of range
    lossy,      \* a resize of the last call was given a size below the length
    op,         \* the last call
    nargs,      \* the number of arguments of the last Push/Unshift call
    ret,        \* <<v, ok>> returned by the last Pop/Shift/Peek/PeekShift
    out,        \* the slice returned by the last ToSlice
    pre,        \* the fields and the capacity before the last call
    abs,        \* the abstract sequence the deque stands for
    want,       \* what the abstract sequence returns for the last call
    run,        \* the insert-then-remove run in progress, if any
    nval        \* the number of values inserted so far

prog == <<Minsize, Shrink, head, tail, len, dat>>

vars == <<Minsize, Shrink, head, tail, len, dat, oob, lossy, op, nargs, ret,
          out, pre, abs, want, run, nval>>

\* The deque as one record, the receiver d of the methods.
Self ==
    [Minsize |-> Minsize, Shrink |-> Shrink, head |-> head, tail |-> tail,
     len |-> len, dat |-> dat, oob |-> FALSE, lossy |-> FALSE]

\* cap(d.dat)
Cap(d) == Len(d.dat)

Min(a, b) == IF a < b THEN a ELSE b

\* ------------------------------------------------------- slices of Go

\* s[i], the zero value when i is out of range (the caller records oob).
At(s, i) == IF i \in 0 .. Len(s) - 1 THEN s[i + 1] ELSE 0

InRange(s, i) == i \in 0 .. Len(s) - 1

\* s[i] = v
Store(s, i, v) == [j \in 1 .. Len(s) |-> IF j = i + 1 THEN v ELSE s[j]]

\* s[lo:hi]; the slice expression is valid when 0 <= lo <= hi <= cap(s).
Slice(s, lo, hi) == SubSeq(s, lo + 1, hi)

SliceOk(s, lo, hi) == 0 <= lo /\ lo <= hi /\ hi <= Len(s)

\* make([]T, size)
Make(size) == [i \in 1 .. size |-> 0]

\* copy(dst[off:], src): the elements copied are min(len(dst) - off, len(src)).
CopyAt(dst, off, src) ==
    [j \in 1 .. Len(dst) |->
        IF j > off /\ j - off <= Len(src) THEN src[j - off] ELSE dst[j]]

CopyCount(dst, off, src) == Min(Len(dst) - off, Len(src))

\* ---------------------------------------------------------------- methods

\* A faulty resize: the part of a wrapped run that lies at the start of the
\* old storage is not copied.
resize_NoWrapCopy(d, size) ==
    LET end0  == Cap(d)
        end   == IF end0 - d.head > d.len THEN d.head + d.len ELSE end0
        src1  == IF SliceOk(d.dat, d.head, end)
                 THEN Slice(d.dat, d.head, end) ELSE <<>>
        new   == IF d.len > 0 THEN CopyAt(Make(size), 0, src1) ELSE Make(size)
        t     == IF d.len = 0 THEN size ELSE d.len
    IN  [d EXCEPT !.dat = new, !.head = 0, !.tail = t - 1]

\* A faulty resize: tail is not put at the end of the storage when the deque
\* is empty.
resize_NoEmptyTail(d, size) ==
    LET end0  == Cap(d)
        end   == IF end0 - d.head > d.len THEN d.head + d.len ELSE end0
        src1  == IF SliceOk(d.dat, d.head, end)
                 THEN Slice(d.dat, d.head, end) ELSE <<>>
        count == CopyCount(Make(size), 0, src1)
        tmp1  == CopyAt(Make(size), 0, src1)
        src2  == IF SliceOk(d.dat, 0, d.len - count)
                 THEN Slice(d.dat, 0, d.len - count) ELSE <<>>
        tmp2  == IF d.len > count THEN CopyAt(tmp1, count, src2) ELSE tmp1
        new   == IF d.len > 0 THEN tmp2 ELSE Make(size)
    IN  [d EXCEPT !.dat = new, !.head = 0, !.tail = d.len - 1]

\* func (d *Deque[T]) resize(size int)
resize(d, size) ==
    LET tmp   == Make(size)
        end0  == Cap(d)
        end   == IF end0 - d.head > d.len THEN d.head + d.len ELSE end0
        ok1   == SliceOk(d.dat, d.head, end)
        src1  == IF ok1 THEN Slice(d.dat, d.head, end) ELSE <<>>
        count == CopyCount(tmp, 0, src1)
        tmp1  == CopyAt(tmp, 0, src1)
        ok2   == SliceOk(d.dat, 0, d.len - count)
        src2  == IF ok2 THEN Slice(d.dat, 0, d.len - count) ELSE <<>>
        tmp2  == IF d.len > count THEN CopyAt(tmp1, count, src2) ELSE tmp1
        new   == IF d.len > 0 THEN tmp2 ELSE tmp
        bad   == d.len > 0 /\ (~ok1 \/ (d.len > count /\ ~ok2))
        t     == IF d.len = 0 THEN size ELSE d.len
    IN  [d EXCEPT !.dat = new, !.head = 0, !.tail = t - 1,
                  !.oob = d.oob \/ bad, !.lossy = d.lossy \/ size < d.len]

\* A faulty doubling: the size is doubled until it exceeds what is needed.
Doubled_Past(size, need) ==
    LET RECURSIVE Go(_)
        Go(sz) == IF sz <= need THEN Go(sz * 2) ELSE sz
    IN  Go(size)

\* A faulty doubling: the size is doubled once, not until it suffices.
Doubled_Once(size, need) == IF size < need THEN size * 2 ELSE size

\* for size < d.len+add { size *= 2 }
RECURSIVE Doubled(_, _)
Doubled(size, need) == IF size < need THEN Doubled(size * 2, need) ELSE size

\* A faulty grow: the new size is what is needed, not a doubling.
grow_Exact(d, add) ==
    IF d.len + add > Cap(d)
    THEN LET m == IF d.Minsize <= 0 THEN DefaultSize ELSE d.Minsize
         IN  resize([d EXCEPT !.Minsize = m], d.len + add)
    ELSE d

\* func (d *Deque[T]) grow(add int)
grow(d, add) ==
    IF d.len + add > Cap(d)
    THEN LET m    == IF d.Minsize <= 0 THEN DefaultSize ELSE d.Minsize
             size == IF Cap(d) = 0 THEN m ELSE Cap(d)
         IN  resize([d EXCEPT !.Minsize = m], Doubled(size, d.len + add))
    ELSE d

\* A faulty shrink: the policy ShrinkNever is not looked at.
shrink_IgnoresNever(d) ==
    IF d.len > d.Minsize \/ Cap(d) = d.Minsize THEN d
    ELSE IF d.Shrink = ShrinkAt20Pct /\ d.len * 5 > Cap(d) THEN d
    ELSE IF d.Shrink = ShrinkIfEmpty /\ d.len > 0 THEN d
    ELSE resize(d, d.Minsize)

\* A faulty shrink: the 20 percent comparison is strict.
shrink_Strict(d) ==
    IF d.Shrink = ShrinkNever THEN d
    ELSE IF d.len > d.Minsize \/ Cap(d) = d.Minsize THEN d
    ELSE IF d.Shrink = ShrinkAt20Pct /\ d.len * 5 >= Cap(d) THEN d
    ELSE IF d.Shrink = ShrinkIfEmpty /\ d.len > 0 THEN d
    ELSE resize(d, d.Minsize)

\* A faulty shrink: ShrinkIfEmpty does not wait for the deque to be empty.
shrink_IfEmptyEarly(d) ==
    IF d.Shrink = ShrinkNever THEN d
    ELSE IF d.len > d.Minsize \/ Cap(d) = d.Minsize THEN d
    ELSE IF d.Shrink = ShrinkAt20Pct /\ d.len * 5 > Cap(d) THEN d
    ELSE resize(d, d.Minsize)

\* A faulty shrink: the storage is cut to the length, not to Minsize.
shrink_ToFit(d) ==
    IF d.Shrink = ShrinkNever THEN d
    ELSE IF d.len > d.Minsize \/ Cap(d) = d.Minsize THEN d
    ELSE IF d.Shrink = ShrinkAt20Pct /\ d.len * 5 > Cap(d) THEN d
    ELSE IF d.Shrink = ShrinkIfEmpty /\ d.len > 0 THEN d
    ELSE resize(d, d.len)

\* A faulty shrink: ShrinkAt20Pct shrinks at half of the capacity.
shrink_AtHalf(d) ==
    IF d.Shrink = ShrinkNever THEN d
    ELSE IF d.len > d.Minsize \/ Cap(d) = d.Minsize THEN d
    ELSE IF d.Shrink = ShrinkAt20Pct /\ d.len * 2 > Cap(d) THEN d
    ELSE IF d.Shrink = ShrinkIfEmpty /\ d.len > 0 THEN d
    ELSE resize(d, d.Minsize)

\* A faulty shrink: the length is not compared with Minsize.
shrink_NoLenGuard(d) ==
    IF d.Shrink = ShrinkNever THEN d
    ELSE IF Cap(d) = d.Minsize THEN d
    ELSE IF d.Shrink = ShrinkAt20Pct /\ d.len * 5 > Cap(d) THEN d
    ELSE IF d.Shrink = ShrinkIfEmpty /\ d.len > 0 THEN d
    ELSE resize(d, d.Minsize)

\* func (d *Deque[T]) shrink()
shrink(d) ==
    IF d.Shrink = ShrinkNever THEN d
    ELSE IF d.len > d.Minsize \/ Cap(d) = d.Minsize THEN d
    ELSE IF d.Shrink = ShrinkAt20Pct /\ d.len * 5 > Cap(d) THEN d
    ELSE IF d.Shrink = ShrinkIfEmpty /\ d.len > 0 THEN d
    ELSE resize(d, d.Minsize)

\* func (d *Deque[T]) push(v T)
push(d, v) ==
    LET t1 == d.tail + 1
        t  == IF t1 = Cap(d) THEN 0 ELSE t1
    IN  [d EXCEPT !.len = d.len + 1, !.tail = t, !.dat = Store(d.dat, t, v),
                  !.oob = d.oob \/ ~InRange(d.dat, t)]

\* for _, x := range v { d.push(x) }
RECURSIVE pushEach(_, _)
pushEach(d, v) ==
    IF v = <<>> THEN d ELSE pushEach(push(d, Head(v)), Tail(v))

\* func (d *Deque[T]) Push(v ...T)
Push(d, v) == pushEach(grow(d, Len(v)), v)

\* A faulty unshift: head is moved back without wrapping to the end.
unshift_NoWrap(d, v) ==
    LET h == d.head - 1
    IN  [d EXCEPT !.len = d.len + 1, !.head = h, !.dat = Store(d.dat, h, v),
                  !.oob = d.oob \/ ~InRange(d.dat, h)]

\* func (d *Deque[T]) unshift(v T)
unshift(d, v) ==
    LET h0 == IF d.head = 0 THEN Cap(d) ELSE d.head
        h  == h0 - 1
    IN  [d EXCEPT !.len = d.len + 1, !.head = h, !.dat = Store(d.dat, h, v),
                  !.oob = d.oob \/ ~InRange(d.dat, h)]

\* for _, x := range v { d.unshift(x) }
RECURSIVE unshiftEach(_, _)
unshiftEach(d, v) ==
    IF v = <<>> THEN d ELSE unshiftEach(unshift(d, Head(v)), Tail(v))

\* func (d *Deque[T]) Unshift(v ...T)
Unshift(d, v) == unshiftEach(grow(d, Len(v)), v)

\* A faulty Pop: the value is read after tail has moved.
Pop_ReadsAfterMove(d) ==
    IF d.len > 0
    THEN LET t0 == IF d.tail = 0 THEN Cap(d) ELSE d.tail
             d1 == [d EXCEPT !.len = d.len - 1, !.tail = t0 - 1]
         IN  [d |-> shrink(d1), r |-> <<At(d.dat, t0 - 1), TRUE>>]
    ELSE [d |-> d, r |-> <<0, FALSE>>]

\* A faulty Pop: shrink is called also when the deque was empty.
Pop_ShrinksWhenEmpty(d) ==
    IF d.len > 0
    THEN LET t0 == IF d.tail = 0 THEN Cap(d) ELSE d.tail
             d1 == [d EXCEPT !.len = d.len - 1, !.tail = t0 - 1]
         IN  [d |-> shrink(d1), r |-> <<At(d.dat, d.tail), TRUE>>]
    ELSE [d |-> shrink(d), r |-> <<0, FALSE>>]

\* func (d *Deque[T]) Pop() (v T, ok bool): the deque left and <<v, ok>>
Pop(d) ==
    IF d.len > 0
    THEN LET t0 == IF d.tail = 0 THEN Cap(d) ELSE d.tail
             d1 == [d EXCEPT !.len = d.len - 1, !.tail = t0 - 1,
                             !.oob = d.oob \/ ~InRange(d.dat, d.tail)]
         IN  [d |-> shrink(d1), r |-> <<At(d.dat, d.tail), TRUE>>]
    ELSE [d |-> d, r |-> <<0, FALSE>>]

\* func (d *Deque[T]) Shift() (v T, ok bool): the deque left and <<v, ok>>
Shift(d) ==
    IF d.len > 0
    THEN LET h1 == d.head + 1
             d1 == [d EXCEPT !.len = d.len - 1,
                             !.head = IF h1 = Cap(d) THEN 0 ELSE h1,
                             !.oob = d.oob \/ ~InRange(d.dat, d.head)]
         IN  [d |-> shrink(d1), r |-> <<At(d.dat, d.head), TRUE>>]
    ELSE [d |-> d, r |-> <<0, FALSE>>]

\* A faulty Peek: it reads the value at head.
Peek_AtHead(d) ==
    IF d.len > 0
    THEN [d |-> d, r |-> <<At(d.dat, d.head), TRUE>>]
    ELSE [d |-> d, r |-> <<0, FALSE>>]

\* func (d *Deque[T]) Peek() (v T, ok bool)
Peek(d) ==
    IF d.len > 0
    THEN [d |-> [d EXCEPT !.oob = d.oob \/ ~InRange(d.dat, d.tail)],
          r |-> <<At(d.dat, d.tail), TRUE>>]
    ELSE [d |-> d, r |-> <<0, FALSE>>]

\* func (d *Deque[T]) PeekShift() (v T, ok bool)
PeekShift(d) ==
    IF d.len > 0
    THEN [d |-> [d EXCEPT !.oob = d.oob \/ ~InRange(d.dat, d.head)],
          r |-> <<At(d.dat, d.head), TRUE>>]
    ELSE [d |-> d, r |-> <<0, FALSE>>]

\* A faulty ToSlice: a run that does not begin at index 0 is not moved there.
ToSlice_NoResize(d) ==
    IF d.len = 0 THEN [d |-> d, s |-> <<>>]
    ELSE [d |-> d, s |-> Slice(d.dat, 0, Min(d.len, Cap(d)))]

\* A faulty ToSlice: only a run that wraps is moved to index 0; a run that
\* does not wrap is returned from where it lies.
ToSlice_OnlyWrapped(d) ==
    IF d.len = 0 THEN [d |-> d, s |-> <<>>]
    ELSE IF d.head > d.tail
         THEN LET d1 == resize(d, Cap(d))
              IN  [d |-> d1, s |-> Slice(d1.dat, 0, Min(d1.len, Cap(d1)))]
         ELSE [d |-> d, s |-> Slice(d.dat, d.head, d.tail + 1)]

\* func (d *Deque[T]) ToSlice() []T: the deque left and the slice returned
ToSlice(d) ==
    IF d.len = 0 THEN [d |-> d, s |-> <<>>]
    ELSE LET d1 == IF d.head # 0 THEN resize(d, Cap(d)) ELSE d
         IN  [d |-> [d1 EXCEPT !.oob = d1.oob \/ ~SliceOk(d1.dat, 0, d1.len)],
              s |-> Slice(d1.dat, 0, Min(d1.len, Cap(d1)))]

\* A faulty WrapSlice: head is left where it was.
WrapSlice_KeepsHead(d, arr, n) ==
    LET t == IF n = 0 THEN Len(arr) ELSE n
    IN  [d EXCEPT !.dat = arr, !.len = n, !.tail = t - 1]

\* func (d *Deque[T]) WrapSlice(dat []T): arr is dat[:cap(dat)], n is len(dat)
WrapSlice(d, arr, n) ==
    LET t == IF n = 0 THEN Len(arr) ELSE n
    IN  [d EXCEPT !.dat = arr, !.len = n, !.head = 0, !.tail = t - 1]

\* ------------------------------------------------ observation of the calls

Reverse(s) == [i \in 1 .. Len(s) |-> s[Len(s) + 1 - i]]

\* The k values of a call: values no earlier call has inserted.
Fresh(k) == [i \in 1 .. k |-> nval + i]

\* No insert-then-remove run is in progress.
NoRun ==
    [ins |-> "none", rem |-> "none", vals |-> <<>>, exp |-> <<0, FALSE>>,
     n |-> 0, cap0 |-> 0, wrapped |-> FALSE]

\* A run begins when values are inserted into an empty deque, and goes on
\* while further calls of the same insertion follow.  vals lists the values
\* inserted and not yet removed, in the order of their insertion.
RunInsert(kind, v) ==
    IF run.ins = kind /\ run.rem = "none"
    THEN [run EXCEPT !.vals = run.vals \o v, !.n = run.n + Len(v)]
    ELSE IF len = 0
    THEN [ins |-> kind, rem |-> "none", vals |-> v, exp |-> <<0, FALSE>>,
          n |-> Len(v), cap0 |-> Len(dat), wrapped |-> FALSE]
    ELSE NoRun

\* The removal at the end where the run inserted takes the value inserted
\* last, the removal at the other end the value inserted first.
SameEnd(ins, kind) ==
    \/ ins = "Push" /\ kind = "Pop"
    \/ ins = "Unshift" /\ kind = "Shift"

\* Pop takes the last of the values of a slice given to WrapSlice, as it takes
\* the value pushed last.
TakesLast(ins, kind) ==
    \/ SameEnd(ins, kind)
    \/ ins = "WrapSlice" /\ kind = "Pop"

\* The run goes on with calls of one removal (Shift, after ToSlice), until one
\* of them has found the deque empty.  exp is what the removal is expected to
\* return.
RunRemove(kind) ==
    IF run.ins # "none" /\ run.rem \in {"none", kind}
       /\ (run.rem = kind => run.exp[2])
       /\ (run.ins = "ToSlice" => kind = "Shift")
    THEN IF run.vals = <<>>
         THEN [run EXCEPT !.rem = kind, !.exp = <<0, FALSE>>]
         ELSE IF TakesLast(run.ins, kind)
         THEN [run EXCEPT !.rem = kind,
                          !.exp = <<run.vals[Len(run.vals)], TRUE>>,
                          !.vals = SubSeq(run.vals, 1, Len(run.vals) - 1)]
         ELSE [run EXCEPT !.rem = kind,
                          !.exp = <<Head(run.vals), TRUE>>,
                          !.vals = Tail(run.vals)]
    ELSE NoRun

\* A ToSlice call begins a run of the values of the slice it returned, as if
\* they had been pushed in that order; wrapped tells whether the call found
\* the occupied run wrapping.
RunSlice(s) ==
    [ins |-> "ToSlice", rem |-> "none", vals |-> s, exp |-> <<0, FALSE>>,
     n |-> Len(s), cap0 |-> Len(dat), wrapped |-> len > 0 /\ head > tail]

\* A WrapSlice call begins a run of the n values of the slice it was given;
\* cap0 is the capacity of that slice.
RunWrap(arr, n) ==
    [ins |-> "WrapSlice", rem |-> "none", vals |-> SubSeq(arr, 1, n),
     exp |-> <<0, FALSE>>, n |-> n, cap0 |-> Len(arr), wrapped |-> FALSE]

\* What a call found: the fields and the capacity before it, and whether the
\* call before it was a Push or Unshift of one value that grew the storage.
Before ==
    [Minsize |-> Minsize, head |-> head, tail |-> tail, len |-> len,
     cap |-> Len(dat),
     grown1 |-> op \in {"Push", "Unshift"} /\ nargs = 1 /\ Len(dat) > pre.cap]

\* The receiver after the call.
Install(d) ==
    /\ Minsize' = d.Minsize
    /\ Shrink' = d.Shrink
    /\ head' = d.head
    /\ tail' = d.tail
    /\ len' = d.len
    /\ dat' = d.dat
    /\ oob' = d.oob
    /\ lossy' = d.lossy
    /\ pre' = Before

NoRet == <<0, FALSE>>

\* ----------------------------------------------------------------- calls

\* A zero-valued deque, its two public fields set before the first use.
Init ==
    /\ Minsize \in -1 .. MaxMinsize
    /\ Shrink \in {ShrinkNever, ShrinkIfEmpty, ShrinkAt20Pct}
    /\ head = 0
    /\ tail = 0
    /\ len = 0
    /\ dat = <<>>
    /\ oob = FALSE
    /\ lossy = FALSE
    /\ op = "New"
    /\ nargs = 0
    /\ ret = NoRet
    /\ out = <<>>
    /\ pre = [Minsize |-> Minsize, head |-> 0, tail |-> 0, len |-> 0,
              cap |-> 0, grown1 |-> FALSE]
    /\ abs = <<>>
    /\ want = NoRet
    /\ run = NoRun
    /\ nval = 0

DoPush(k) ==
    /\ nval + k <= MaxVal
    /\ Install(Push(Self, Fresh(k)))
    /\ op' = "Push"
    /\ nargs' = k
    /\ ret' = NoRet
    /\ out' = <<>>
    /\ abs' = abs \o Fresh(k)
    /\ want' = NoRet
    /\ run' = RunInsert("Push", Fresh(k))
    /\ nval' = nval + k

DoUnshift(k) ==
    /\ nval + k <= MaxVal
    /\ Install(Unshift(Self, Fresh(k)))
    /\ op' = "Unshift"
    /\ nargs' = k
    /\ ret' = NoRet
    /\ out' = <<>>
    /\ abs' = Reverse(Fresh(k)) \o abs
    /\ want' = NoRet
    /\ run' = RunInsert("Unshift", Fresh(k))
    /\ nval' = nval + k

DoPop ==
    /\ Install(Pop(Self).d)
    /\ op' = "Pop"
    /\ nargs' = 0
    /\ ret' = Pop(Self).r
    /\ out' = <<>>
    /\ abs' = IF abs = <<>> THEN abs ELSE SubSeq(abs, 1, Len(abs) - 1)
    /\ want' = IF abs = <<>> THEN NoRet ELSE <<abs[Len(abs)], TRUE>>
    /\ run' = RunRemove("Pop")
    /\ UNCHANGED nval

DoShift ==
    /\ Install(Shift(Self).d)
    /\ op' = "Shift"
    /\ nargs' = 0
    /\ ret' = Shift(Self).r
    /\ out' = <<>>
    /\ abs' = IF abs = <<>> THEN abs ELSE Tail(abs)
    /\ want' = IF abs = <<>> THEN NoRet ELSE <<Head(abs), TRUE>>
    /\ run' = RunRemove("Shift")
    /\ UNCHANGED nval

DoPeek ==
    /\ Install(Peek(Self).d)
    /\ op' = "Peek"
    /\ nargs' = 0
    /\ ret' = Peek(Self).r
    /\ out' = <<>>
    /\ want' = IF abs = <<>> THEN NoRet ELSE <<abs[Len(abs)], TRUE>>
    /\ run' = NoRun
    /\ UNCHANGED <<abs, nval>>

DoPeekShift ==
    /\ Install(PeekShift(Self).d)
    /\ op' = "PeekShift"
    /\ nargs' = 0
    /\ ret' = PeekShift(Self).r
    /\ out' = <<>>
    /\ want' = IF abs = <<>> THEN NoRet ELSE <<Head(abs), TRUE>>
    /\ run' = NoRun
    /\ UNCHANGED <<abs, nval>>

DoToSlice ==
    /\ Install(ToSlice(Self).d)
    /\ op' = "ToSlice"
    /\ nargs' = 0
    /\ ret' = NoRet
    /\ out' = ToSlice(Self).s
    /\ want' = abs
    /\ run' = RunSlice(ToSlice(Self).s)
    /\ UNCHANGED <<abs, nval>>

\* WrapSlice(dat) with cap(dat) = c and len(dat) = n, as in
\* tmp := []int{1, 2, 3, 4}; d.WrapSlice(tmp[:n]): the backing array holds c
\* new values, of which the slice shows the first n.
DoWrapSlice(c, n) ==
    /\ nval + c <= MaxVal
    /\ Install(WrapSlice(Self, Fresh(c), n))
    /\ op' = "WrapSlice"
    /\ nargs' = 0
    /\ ret' = NoRet
    /\ out' = <<>>
    /\ abs' = SubSeq(Fresh(c), 1, n)
    /\ want' = NoRet
    /\ run' = RunWrap(Fresh(c), n)
    /\ nval' = nval + c

Next ==
    \/ \E k \in 0 .. MaxBatch : DoPush(k)
    \/ \E k \in 0 .. MaxBatch : DoUnshift(k)
    \/ DoPop
    \/ DoShift
    \/ DoPeek
    \/ DoPeekShift
    \/ DoToSlice
    \/ \E c \in 0 .. MaxWrapCap : \E n \in 0 .. c : DoWrapSlice(c, n)

Spec == Init /\ [][Next]_vars

\* ------------------------------------------------------------ properties

\* The occupied run read forward from head, wrapping at the capacity.
Content ==
    [i \in 1 .. len |-> At(dat, IF Len(dat) = 0 THEN 0
                                 ELSE (head + i - 1) % Len(dat))]

Removals == {"Pop", "Shift"}

Peeks == {"Peek", "PeekShift"}

C2_Lifo ==
    (run.rem # "none" /\ SameEnd(run.ins, run.rem)) => ret = run.exp

\* Three or more values were put in with Unshift, Shift has returned them all
\* and one more Shift has found the deque empty.
C2_Witness ==
    /\ run.ins = "Unshift"
    /\ run.rem = "Shift"
    /\ run.n >= 3
    /\ run.exp = NoRet
    /\ ret = NoRet

\* C3: from an empty deque, Push of v1..vn and then n Shifts return v1..vn,
\* and Unshift of v1..vn and then n Pops return v1..vn, also when inserting
\* the n values doubled the capacity once or more.
C3_Fifo ==
    (run.rem # "none" /\ run.ins \in {"Push", "Unshift"}
        /\ ~SameEnd(run.ins, run.rem)) => ret = run.exp

\* Four or more values were pushed into a zero-valued deque of Minsize 1, the
\* capacity doubling from 1 to 4 or more, and Shift has returned the last of
\* them.
C3_Witness ==
    /\ run.ins = "Push"
    /\ run.rem = "Shift"
    /\ run.cap0 = 0
    /\ run.n >= 4
    /\ pre.Minsize = 1
    /\ pre.cap >= 4
    /\ run.vals = <<>>
    /\ ret[2]

\* C4: a Pop or Shift that finds length 0 returns the zero value and found =
\* false and leaves length, capacity, head, tail, storage and the two public
\* fields as they were, under every shrink policy.
C4_EmptyRemoval ==
    [][(op' \in Removals /\ len = 0) => (ret' = NoRet /\ UNCHANGED prog)]_vars

\* A Pop found an empty deque whose capacity a shrink would have changed.
C4_Witness ==
    /\ op = "Pop"
    /\ pre.len = 0
    /\ ret = NoRet
    /\ Shrink # ShrinkNever
    /\ Minsize >= 0
    /\ Len(dat) > 0
    /\ Len(dat) # Minsize

\* C5: Peek and PeekShift leave length, capacity, head, tail and storage as
\* they were; Peek returns what Pop would return in that state and PeekShift
\* what Shift would return, found = true on a non-empty deque and the zero
\* value with found = false on an empty one; a repeated call returns the same.
C5_Peek ==
    [][/\ op' \in Peeks => UNCHANGED prog
       /\ op' = "Peek" => ret' = Pop(Self).r /\ ret'[2] = (len > 0)
       /\ op' = "PeekShift" => ret' = Shift(Self).r /\ ret'[2] = (len > 0)
       /\ (op' \in Peeks /\ len = 0) => ret' = NoRet
       /\ (op' \in Peeks /\ op' = op) => ret' = ret]_vars

\* Peek has returned a value of a deque whose run of two or more wrapped.
C5_Witness ==
    /\ op = "Peek"
    /\ ret[2]
    /\ len >= 2
    /\ head > tail

RECURSIVE Pow2(_)
Pow2(j) == IF j = 0 THEN 1 ELSE 2 * Pow2(j - 1)

\* The smallest of base, 2*base, 4*base, ... that is at least need (base > 0).
SmallestDoubling(base, need) ==
    LET j == CHOOSE i \in 0 .. need :
                 /\ base * Pow2(i) >= need
                 /\ \A h \in 0 .. i - 1 : base * Pow2(h) < need
    IN  base * Pow2(j)

\* The capacities after 1, 2, 3, 4 and 5 pushes with Minsize = 2.
CapSeq == <<2, 2, 4, 4, 8>>

\* C6: Push or Unshift of k values on a deque of length n and capacity c
\* leaves the capacity c when n + k <= c, and otherwise makes it the smallest
\* base * 2^j >= n + k, base being c, or Minsize when c is 0 (32 when Minsize
\* <= 0); pushing into a zero-valued deque of Minsize 2 gives the capacities
\* 2, 2, 4, 4, 8 at the lengths 1 to 5.
C6_Grow ==
    /\ op \in {"Push", "Unshift"} =>
          Len(dat) =
              IF pre.len + nargs <= pre.cap THEN pre.cap
              ELSE SmallestDoubling(
                       IF pre.cap # 0 THEN pre.cap
                       ELSE IF pre.Minsize <= 0 THEN 32 ELSE pre.Minsize,
                       pre.len + nargs)
    /\ (op = "Push" /\ run.ins = "Push" /\ run.cap0 = 0 /\ pre.Minsize = 2
            /\ len \in 1 .. Len(CapSeq)) => Len(dat) = CapSeq[len]

\* The fifth value pushed, alone, into a deque of Minsize 2 that began with
\* capacity 0 has doubled the capacity from 4 to 8.
C6_Witness ==
    /\ op = "Push"
    /\ nargs = 1
    /\ run.ins = "Push"
    /\ run.cap0 = 0
    /\ run.n = 5
    /\ Minsize = 2
    /\ pre.cap = 4
    /\ Len(dat) = 8

\* C7: under ShrinkNever no Push, Unshift, Pop, Shift, Peek, PeekShift or
\* ToSlice call leaves the capacity smaller than it found it.
C7_NeverShrinks ==
    (Shrink = ShrinkNever /\ op \notin {"New", "WrapSlice"}) =>
        Len(dat) >= pre.cap

\* Under ShrinkNever a removal has emptied a deque whose capacity is not
\* Minsize, and the capacity stayed.
C7_Witness ==
    /\ Shrink = ShrinkNever
    /\ op \in Removals
    /\ pre.len = 1
    /\ len = 0
    /\ Minsize > 0
    /\ Len(dat) > Minsize

\* C8: under ShrinkAt20Pct a Pop or Shift on a non-empty deque makes the
\* capacity Minsize exactly when the length left is <= Minsize, the capacity
\* is not Minsize and length * 5 <= capacity; otherwise the capacity stays.
C8_At20Pct ==
    (Shrink = ShrinkAt20Pct /\ op \in Removals /\ pre.len > 0) =>
        Len(dat) =
            IF len <= pre.Minsize /\ pre.cap # pre.Minsize
               /\ len * 5 <= pre.cap
            THEN pre.Minsize
            ELSE pre.cap

\* A removal has left one value in a capacity of exactly five times as much,
\* and the capacity has become Minsize.
C8_Witness ==
    /\ Shrink = ShrinkAt20Pct
    /\ op \in Removals
    /\ len = 1
    /\ pre.cap = 5
    /\ Len(dat) = Minsize
    /\ Minsize # 5

\* C9: under ShrinkIfEmpty with Minsize >= 1, a Pop or Shift that leaves
\* values in the deque leaves the capacity as it was, and one that removes the
\* last value leaves the capacity equal to Minsize.
C9_IfEmpty ==
    (Shrink = ShrinkIfEmpty /\ op \in Removals /\ pre.len > 0
        /\ pre.Minsize >= 1) =>
        /\ len > 0 => Len(dat) = pre.cap
        /\ len = 0 => Len(dat) = Minsize

\* The last of the values has been removed from a capacity of 8, which has
\* become the Minsize of 2.
C9_Witness ==
    /\ Shrink = ShrinkIfEmpty
    /\ op \in Removals
    /\ len = 0
    /\ pre.len = 1
    /\ pre.cap = 8
    /\ Minsize = 2
    /\ Len(dat) = 2

\* C10: ToSlice returns the abstract sequence, the empty one when the length
\* is 0, also when the occupied run wrapped; it leaves length, capacity and
\* the content as they were, and the Shifts that follow return the values of
\* the slice in its order, then "empty".
C10_ToSlice ==
    /\ op = "ToSlice" =>
          /\ out = abs
          /\ len = pre.len
          /\ Len(dat) = pre.cap
          /\ Content = abs
          /\ Len(out) = len
    /\ (run.ins = "ToSlice" /\ run.rem = "Shift") => ret = run.exp

\* ToSlice found a wrapped run of two or more values, and Shift has since
\* returned the last value of the slice.
C10_Witness ==
    /\ run.ins = "ToSlice"
    /\ run.rem = "Shift"
    /\ run.wrapped
    /\ run.n >= 2
    /\ run.vals = <<>>
    /\ ret[2]

\* C11: WrapSlice, in whatever state it is called, leaves the length len(dat),
\* the capacity cap(dat), head 0 and the values of dat, in their order, as the
\* content, so that the Pops that follow return them in reverse and then
\* "empty" (a view of length 0 of a buffer of capacity 4 gives length 0 and
\* capacity 4); a Push that follows and fits writes into the storage given,
\* which is not replaced.
C11_WrapSlice ==
    /\ [](op = "WrapSlice" =>
            /\ len = run.n
            /\ Len(dat) = run.cap0
            /\ head = 0
            /\ Content = run.vals
            /\ Minsize = pre.Minsize)
    /\ []((run.ins = "WrapSlice" /\ run.rem = "Pop") => ret = run.exp)
    /\ [][(op = "WrapSlice" /\ op' = "Push" /\ len + nargs' <= Len(dat)) =>
            /\ Len(dat') = Len(dat)
            /\ head' = head
            /\ len' = len + nargs'
            /\ \A i \in 1 .. Len(dat) :
                   i \notin len + 1 .. len + nargs' => dat'[i] = dat[i]]_vars

\* A view of length 0 of a buffer of capacity 4 was given to the deque, and
\* a Push of one value has kept the three other values of the buffer in place.
C11_Witness ==
    /\ op = "Push"
    /\ nargs = 1
    /\ run.ins = "Push"
    /\ run.cap0 = 4
    /\ pre.len = 0
    /\ pre.tail = 3
    /\ Len(dat) = 4
    /\ len = 1
    /\ \A i \in 2 .. 4 : dat[i] > 0

\* C12: no call, in any state reached through the operations (WrapSlice of
\* slices of capacity 0 among them), with any Minsize and policy, evaluates
\* an index or slice expression that is out of range.
C12_InBounds == ~oob

\* A Push found storage of capacity 0 with tail at -1, as WrapSlice of an
\* empty slice or a resize to 0 leaves it, and stored its values.
C12_Witness ==
    /\ op = "Push"
    /\ nargs > 0
    /\ pre.cap = 0
    /\ pre.tail = -1
    /\ len = nargs
    /\ ~oob

\* C13: the length is always between 0 and the capacity, and no call invokes
\* resize with a size below the length.
C13_LenWithinCap ==
    /\ 0 <= len
    /\ len <= Len(dat)
    /\ ~lossy

\* A removal has shrunk storage that held values to a capacity equal to the
\* length: the resize was given a size equal to the length.
C13_Witness ==
    /\ op \in Removals
    /\ Len(dat) < pre.cap
    /\ len > 0
    /\ len = Len(dat)
    /\ ~lossy

\* C14: a Pop or a Shift never leaves the capacity larger than it found it,
\* under every policy and Minsize, also when the storage came from WrapSlice.
C14_NeverLarger == op \in Removals => Len(dat) <= pre.cap

\* C15: whenever a Pop or a Shift changes the capacity, the new capacity is
\* Minsize if Minsize is positive and 32 otherwise.
C15_ShrinksToMinsize ==
    (op \in Removals /\ Len(dat) # pre.cap) =>
        Len(dat) = (IF pre.Minsize > 0 THEN pre.Minsize ELSE DefaultSize)

\* C16: under ShrinkAt20Pct, a Pop or a Shift that comes right after a Push
\* or an Unshift of one value that grew the capacity does not shrink it.
C16_NoOscillation ==
    (Shrink = ShrinkAt20Pct /\ op \in Removals /\ pre.grown1) =>
        Len(dat) >= pre.cap

\* Under ShrinkAt20Pct one value was inserted into full storage, which grew,
\* and the removal that followed left a length within Minsize in storage
\* larger than Minsize: only the 20 percent rule kept the capacity.
C16_Witness ==
    /\ Shrink = ShrinkAt20Pct
    /\ op \in Removals
    /\ pre.grown1
    /\ ret[2]
    /\ len > 0
    /\ len <= Minsize
    /\ Len(dat) > Minsize
    /\ Len(dat) = pre.cap

\* C17 as stated: ToSlice on a deque that is not empty and whose run does
\* not wrap (head <= tail) leaves head and tail where they were.
C17_OnlyWhenWrapped ==
    (op = "ToSlice" /\ pre.len > 0 /\ pre.head <= pre.tail) =>
        (head = pre.head /\ tail = pre.tail)

\* C17, amended: ToSlice on an empty deque changes nothing and returns an
\* empty slice; with head at 0 it changes nothing and returns
\* storage[0..len); with head not at 0, whether the run wraps or not, it
\* resizes to the capacity it found: the run lies from index 0, zeros follow
\* it, head is 0, tail is len-1, and storage[0..len) is returned.
C17_ToSliceResizes ==
    [][op' = "ToSlice" =>
        IF len = 0
        THEN UNCHANGED prog /\ out' = <<>>
        ELSE IF head = 0
        THEN UNCHANGED prog /\ out' = SubSeq(dat, 1, len)
        ELSE /\ UNCHANGED <<Minsize, Shrink, len>>
             /\ head' = 0
             /\ tail' = len - 1
             /\ Len(dat') = Len(dat)
             /\ SubSeq(dat', 1, len) = Content
             /\ \A i \in len + 1 .. Len(dat) : dat'[i] = 0
             /\ out' = Content]_vars

\* ToSlice found a run that did not wrap and did not begin at index 0, and
\* moved it to index 0.
C17_Witness ==
    /\ op = "ToSlice"
    /\ pre.len > 1
    /\ pre.head # 0
    /\ pre.head <= pre.tail
    /\ head = 0
    /\ tail = len - 1
    /\ out = Content

\* c is b, 2b, 4b, ... (b > 0).
RECURSIVE DoublingOf(_, _)
DoublingOf(c, b) ==
    /\ b > 0
    /\ \/ c = b
       \/ c > b /\ c % 2 = 0 /\ DoublingOf(c \div 2, b)

IsPow2(n) == DoublingOf(n, 1)

Inserts == {"Push", "Unshift"}

\* C18 as stated: the capacity of allocated storage is a power of two, or is
\* Minsize when Minsize is not a power of two.
C18_Pow2OrMinsize ==
    Len(dat) > 0 =>
        \/ IsPow2(Len(dat))
        \/ Len(dat) = Minsize /\ ~IsPow2(Minsize)

\* C18, amended: the capacity is whatever the calls make of it. WrapSlice
\* sets it to the capacity of the slice given; a Push or an Unshift keeps it
\* or, when the values do not fit, makes it b, 2b, 4b, ... for b the capacity
\* it found (Minsize, or 32 when Minsize is not positive, if it found 0); a
\* Pop or a Shift keeps it or sets it to Minsize; no other call changes it.
C18_CapacitySteps ==
    [][LET c == Len(dat)
           m == IF Minsize > 0 THEN Minsize ELSE DefaultSize
       IN  CASE op' = "WrapSlice" -> Len(dat') = run'.cap0
             [] op' \in Inserts ->
                    IF len + nargs' <= c
                    THEN Len(dat') = c
                    ELSE DoublingOf(Len(dat'), IF c = 0 THEN m ELSE c)
             [] op' \in Removals -> Len(dat') = c \/ Len(dat') = Minsize
             [] OTHER -> Len(dat') = c]_vars

\* With Minsize 3, a Push or an Unshift found the capacity 3 and left the
\* capacity 6, which is neither a power of two nor Minsize.
C18_Witness ==
    /\ op \in Inserts
    /\ Minsize = 3
    /\ pre.Minsize = 3
    /\ pre.cap = 3
    /\ Len(dat) = 6
    /\ ~IsPow2(Len(dat))

\* C19: whenever the capacity is positive, head and tail are indexes of the
\* storage and (head + len) mod capacity = (tail + 1) mod capacity, also when
\* the deque is empty: tail then lies, circularly, just before head.
C19_Cursors ==
    Len(dat) > 0 =>
        /\ 0 <= head
        /\ head < Len(dat)
        /\ 0 <= tail
        /\ tail < Len(dat)
        /\ (head + len) % Len(dat) = (tail + 1) % Len(dat)

\* A Push or an Unshift found an empty deque that had capacity, with head
\* away from index 0 and tail just before it, and inserted into that storage.
C19_Witness ==
    /\ op \in Inserts
    /\ nargs > 0
    /\ pre.len = 0
    /\ pre.cap > 0
    /\ pre.head > 0
    /\ pre.tail = pre.head - 1
    /\ Len(dat) = pre.cap
    /\ len = nargs

\* The capacity is 0 or M, 2M, 4M, ..., M being Minsize, or 32 when Minsize is
\* not positive.
Shape ==
    \/ Len(dat) = 0
    \/ DoublingOf(Len(dat), IF Minsize > 0 THEN Minsize ELSE DefaultSize)

\* C20: a deque on which WrapSlice is never called has, in every state, the
\* capacity 0 or M * 2^k (M is Minsize if positive and 32 otherwise), so that
\* allocated storage is never smaller than M, and a Pop or a Shift that
\* changes its capacity makes it smaller. The zero-valued deque has that
\* shape, and every call but WrapSlice keeps it.
C20_CapacityShape ==
    /\ Shape
    /\ [][(Shape /\ op' # "WrapSlice") =>
            /\ Shape'
            /\ Len(dat') > 0 =>
                   Len(dat') >= (IF Minsize' > 0 THEN Minsize' ELSE DefaultSize)
            /\ (op' \in Removals /\ Len(dat') # Len(dat)) =>
                   Len(dat') < Len(dat)]_vars

\* Storage that the deque allocated itself, beginning from capacity 0, and
\* doubled from Minsize, was cut back to Minsize by a Pop or a Shift.
C20_Witness ==
    /\ op \in Removals
    /\ run.ins \in Inserts
    /\ run.cap0 = 0
    /\ pre.Minsize = Minsize
    /\ pre.cap > Minsize
    /\ DoublingOf(pre.cap, Minsize)
    /\ Len(dat) = Minsize
    /\ Shape

====
